---- MODULE Spec2Model ----
(***************************************************************************)
(* Model of the profit-and-loss report route                               *)
(* (app/api/routes-d/finance/p-and-l/route.ts, GET) and of the MoonPay     *)
(* popup hook (useMoonPayWidget.openWidget).                               *)
(*                                                                         *)
(* Money is an integer number of cents.  round2 receives its argument in   *)
(* thousandths of a cent, so that rounding to two decimals is a real       *)
(* computation.  Time is counted in whole months since January of year 0;  *)
(* a completedAt of m is the first instant of month m.  A string that the  *)
(* code lowercases is a sequence of character codes.                       *)
(***************************************************************************)
EXTENDS Integers, Sequences, FiniteSets, TLC

VARIABLES
    ledger,     \* the transaction table, in storage order
    now,        \* the clock, in months
    request,    \* the request being answered (NoRequest when idle)
    response,   \* the response of that request (NoResponse when idle)
    totals,     \* the handler's aggregation locals (NoTotals when not computed)
    last,       \* an earlier report returned since the ledger last changed
    calls,      \* openWidget: one record per call of the hook
    windows     \* openWidget: the browser windows named 'MoonPay' opened so far

vars == <<ledger, now, request, response, totals, last, calls, windows>>

routeVars == <<ledger, now, request, response, totals, last>>
widgetVars == <<calls, windows>>

----------------------------------------------------------------------------
(* Bounds of the model *)

MaxLedger == 2
MaxFilterLedger == 2
MaxRankLedger == 6
MaxNow == 14
MaxCalls == 2

----------------------------------------------------------------------------
(* Values *)

NoUser == 0
Users == {1, 2}
NoParam == "<null>"
NoRequest == [auth |-> NoUser, period |-> NoParam, format |-> NoParam,
              userId |-> NoParam, fail |-> "idle", userRow |-> FALSE]
NoResponse == [status |-> 0]
NoTotals == [computed |-> FALSE]
NoRange == [label |-> <<>>]
NoReport == [status |-> 0]

MonthsPerYear == 12
MonthsPerQuarter == 3
TopN == 5

Periods == {"current_month", "last_month", "current_quarter", "last_year"}
IncomeTypes == {"incoming", "payment"}
FailPoints == {"none", "income", "refund", "withdrawal", "user", "render"}

Min(a, b) == IF a < b THEN a ELSE b

----------------------------------------------------------------------------
(* _shared helpers *)

\* round2: argument in thousandths of a cent, result in cents
\* (Math.round: halves go towards plus infinity).
round2(m) == (m + 500) \div 1000

\* A dollar amount held as cents, seen by round2.
Milli(c) == c * 1000

\* amount * 0.005, rounded to cents
computePlatformFee(amount) == round2(amount * 5)

computeWithdrawalFee(amount) == round2(amount * 5)

isValidPeriod(period) == period \in Periods

\* The half-open range [start, end) of a period token at instant t.
getPeriodDateRange(period, t) ==
    LET yearStart == t - (t % MonthsPerYear)
        quarterStart == t - (t % MonthsPerQuarter)
    IN  CASE period = "current_month" ->
                [label |-> <<period, t>>, start |-> t, end |-> t + 1]
          [] period = "last_month" ->
                [label |-> <<period, t - 1>>, start |-> t - 1, end |-> t]
          [] period = "current_quarter" ->
                [label |-> <<period, quarterStart>>, start |-> quarterStart,
                 end |-> quarterStart + MonthsPerQuarter]
          [] period = "last_year" ->
                [label |-> <<period, yearStart - MonthsPerYear>>,
                 start |-> yearStart - MonthsPerYear, end |-> yearStart]
          [] OTHER -> NoRange

\* String.prototype.toLowerCase on a sequence of character codes
toLowerCase(s) == [i \in DOMAIN s |-> IF s[i] \in 65..90 THEN s[i] + 32 ELSE s[i]]

----------------------------------------------------------------------------
(* prisma.transaction.findMany *)

Front(s) == SubSeq(s, 1, Len(s) - 1)

\* Where with the end of the range included (lte for lt).
Where_inclusiveEnd(t, userId, types, dateRange) ==
    /\ t.userId = userId
    /\ t.status = "completed"
    /\ t.type \in types
    /\ t.completedAt >= dateRange.start
    /\ t.completedAt <= dateRange.end

\* the where clause of the three queries
Where(t, userId, types, dateRange) ==
    /\ t.userId = userId
    /\ t.status = "completed"
    /\ t.type \in types
    /\ t.completedAt >= dateRange.start
    /\ t.completedAt < dateRange.end

RECURSIVE InsertByCompletedAt(_, _)
InsertByCompletedAt(t, s) ==
    IF s = <<>> THEN <<t>>
    ELSE IF s[Len(s)].completedAt <= t.completedAt THEN Append(s, t)
    ELSE Append(InsertByCompletedAt(t, Front(s)), s[Len(s)])

\* orderBy: { completedAt: 'asc' }; rows of equal completedAt keep storage order
RECURSIVE OrderByCompletedAt(_)
OrderByCompletedAt(s) ==
    IF s = <<>> THEN <<>>
    ELSE InsertByCompletedAt(s[Len(s)], OrderByCompletedAt(Front(s)))

FindMany(rows, userId, types, dateRange) ==
    OrderByCompletedAt(SelectSeq(rows, LAMBDA t : Where(t, userId, types, dateRange)))

----------------------------------------------------------------------------
(* Aggregation: route.ts lines 117-142 *)

RECURSIVE SumAmount(_)
SumAmount(s) ==
    IF s = <<>> THEN 0 ELSE SumAmount(Front(s)) + s[Len(s)].amount

RECURSIVE SumPlatformFee(_)
SumPlatformFee(s) ==
    IF s = <<>> THEN 0
    ELSE SumPlatformFee(Front(s)) + computePlatformFee(s[Len(s)].amount)

RECURSIVE SumWithdrawalFee(_)
SumWithdrawalFee(s) ==
    IF s = <<>> THEN 0
    ELSE SumWithdrawalFee(Front(s)) + computeWithdrawalFee(s[Len(s)].amount)

TotalsRecord(totalIncome, totalRefunds, grossIncome, platformFees, withdrawalFees, operatingExpenses, netProfit) ==
    [computed |-> TRUE,
     totalIncome |-> totalIncome,
     totalRefunds |-> totalRefunds,
     grossIncome |-> grossIncome,
     platformFees |-> platformFees,
     withdrawalFees |-> withdrawalFees,
     operatingExpenses |-> operatingExpenses,
     netProfit |-> netProfit]

\* ComputeTotals with the withdrawal fees left out of the net profit.
ComputeTotals_noWithdrawalFees(incomeTransactions, refundTransactions, withdrawalTransactions) ==
    LET totalIncome == round2(Milli(SumAmount(incomeTransactions)))
        totalRefunds == round2(Milli(SumAmount(refundTransactions)))
        grossIncome == round2(Milli(totalIncome - totalRefunds))
        platformFees == round2(Milli(SumPlatformFee(incomeTransactions)))
        withdrawalFees == round2(Milli(SumWithdrawalFee(withdrawalTransactions)))
        operatingExpenses == round2(Milli(SumAmount(withdrawalTransactions)))
        netProfit == round2(Milli(grossIncome - platformFees - operatingExpenses))
    IN  TotalsRecord(totalIncome, totalRefunds, grossIncome, platformFees,
                     withdrawalFees, operatingExpenses, netProfit)

\* ComputeTotals with the platform fee taken once, on the income total.
ComputeTotals_feeOnTotal(incomeTransactions, refundTransactions, withdrawalTransactions) ==
    LET totalIncome == round2(Milli(SumAmount(incomeTransactions)))
        totalRefunds == round2(Milli(SumAmount(refundTransactions)))
        grossIncome == round2(Milli(totalIncome - totalRefunds))
        platformFees == computePlatformFee(totalIncome)
        withdrawalFees == round2(Milli(SumWithdrawalFee(withdrawalTransactions)))
        operatingExpenses == round2(Milli(SumAmount(withdrawalTransactions)))
        netProfit ==
            round2(Milli(grossIncome - platformFees - withdrawalFees - operatingExpenses))
    IN  TotalsRecord(totalIncome, totalRefunds, grossIncome, platformFees,
                     withdrawalFees, operatingExpenses, netProfit)

ComputeTotals(incomeTransactions, refundTransactions, withdrawalTransactions) ==
    LET totalIncome == round2(Milli(SumAmount(incomeTransactions)))
        totalRefunds == round2(Milli(SumAmount(refundTransactions)))
        grossIncome == round2(Milli(totalIncome - totalRefunds))
        platformFees == round2(Milli(SumPlatformFee(incomeTransactions)))
        withdrawalFees == round2(Milli(SumWithdrawalFee(withdrawalTransactions)))
        operatingExpenses == round2(Milli(SumAmount(withdrawalTransactions)))
        netProfit ==
            round2(Milli(grossIncome - platformFees - withdrawalFees - operatingExpenses))
    IN  TotalsRecord(totalIncome, totalRefunds, grossIncome, platformFees,
                     withdrawalFees, operatingExpenses, netProfit)

----------------------------------------------------------------------------
(* Top clients: route.ts lines 144-174 *)

\* The Map as the sequence of its values in insertion order.
RECURSIVE ClientMap(_)
ClientMap(incomeTransactions) ==
    IF incomeTransactions = <<>> THEN <<>>
    ELSE
        LET clientMap == ClientMap(Front(incomeTransactions))
            transaction == incomeTransactions[Len(incomeTransactions)]
        IN  IF transaction.invoice = <<>> THEN clientMap
            ELSE
                LET clientEmail == toLowerCase(transaction.invoice[1].clientEmail)
                    clientName ==
                        IF transaction.invoice[1].clientName # ""
                        THEN transaction.invoice[1].clientName
                        ELSE "Unknown Client"
                    amount == transaction.amount
                    withKey ==
                        IF \E i \in DOMAIN clientMap : clientMap[i].email = clientEmail
                        THEN clientMap
                        ELSE Append(clientMap,
                                    [name |-> clientName, email |-> clientEmail,
                                     revenue |-> 0, invoiceCount |-> 0])
                IN  [i \in DOMAIN withKey |->
                        IF withKey[i].email = clientEmail
                        THEN [withKey[i] EXCEPT
                                !.revenue = round2(Milli(@ + amount)),
                                !.invoiceCount = @ + 1]
                        ELSE withKey[i]]

RECURSIVE InsertByRevenue(_, _)
InsertByRevenue(c, s) ==
    IF s = <<>> THEN <<c>>
    ELSE IF s[Len(s)].revenue >= c.revenue THEN Append(s, c)
    ELSE Append(InsertByRevenue(c, Front(s)), s[Len(s)])

\* Array.prototype.sort((a, b) => b.revenue - a.revenue): stable, descending
RECURSIVE SortByRevenue(_)
SortByRevenue(s) ==
    IF s = <<>> THEN <<>>
    ELSE InsertByRevenue(s[Len(s)], SortByRevenue(Front(s)))

\* TopClients with the ranking cut one entry too late.
TopClients_sliceSix(incomeTransactions) ==
    LET sorted == SortByRevenue(ClientMap(incomeTransactions))
    IN  SubSeq(sorted, 1, Min(TopN + 1, Len(sorted)))

TopClients(incomeTransactions) ==
    LET sorted == SortByRevenue(ClientMap(incomeTransactions))
    IN  SubSeq(sorted, 1, Min(TopN, Len(sorted)))

----------------------------------------------------------------------------
(* Request validation: route.ts lines 17-54 *)

ErrorResponse(status, message) ==
    [status |-> status, kind |-> "json", body |-> [error |-> message]]

\* searchParams.get('format') || 'json'
FormatOf(req) == IF req.format \in {NoParam, ""} THEN "json" ELSE req.format

\* ValidateRequest with the query parameters checked before the principal.
ValidateRequest_paramsFirst(req) ==
    IF req.period \in {NoParam, ""}
    THEN ErrorResponse(400, "period parameter is required")
    ELSE IF ~isValidPeriod(req.period) THEN ErrorResponse(400, "Invalid period")
    ELSE IF FormatOf(req) # "json" /\ FormatOf(req) # "pdf"
    THEN ErrorResponse(400, "Invalid format")
    ELSE IF req.auth = NoUser THEN ErrorResponse(401, "auth.error")
    ELSE NoResponse

\* The early returns of GET, in order; NoResponse when the request passes.
ValidateRequest(req) ==
    IF req.auth = NoUser THEN ErrorResponse(401, "auth.error")
    ELSE IF req.period \in {NoParam, ""}
    THEN ErrorResponse(400, "period parameter is required")
    ELSE IF ~isValidPeriod(req.period) THEN ErrorResponse(400, "Invalid period")
    ELSE IF FormatOf(req) # "json" /\ FormatOf(req) # "pdf"
    THEN ErrorResponse(400, "Invalid format")
    ELSE IF getPeriodDateRange(req.period, now) = NoRange
    THEN ErrorResponse(400, "Failed to parse period")
    ELSE NoResponse

----------------------------------------------------------------------------
(* Report generation: route.ts lines 56-227 *)

\* Aggregate with a rejected refund query swallowed as an empty result.
Aggregate_partial(rows, req, dateRange) ==
    IF req.fail \in {"income", "withdrawal"}
    THEN [ok |-> FALSE]
    ELSE [ok |-> TRUE,
          incomeTransactions |->
              FindMany(rows, req.auth, IncomeTypes, dateRange),
          refundTransactions |->
              IF req.fail = "refund" THEN <<>>
              ELSE FindMany(rows, req.auth, {"refund"}, dateRange),
          withdrawalTransactions |->
              FindMany(rows, req.auth, {"withdrawal"}, dateRange)]

\* The three ledger queries, awaited one after the other.  req.fail names the
\* external call that rejects; a rejected await leaves the try block.
Aggregate(rows, req, dateRange) ==
    IF req.fail \in {"income", "refund", "withdrawal"}
    THEN [ok |-> FALSE]
    ELSE [ok |-> TRUE,
          incomeTransactions |->
              FindMany(rows, req.auth, IncomeTypes, dateRange),
          refundTransactions |->
              FindMany(rows, req.auth, {"refund"}, dateRange),
          withdrawalTransactions |->
              FindMany(rows, req.auth, {"withdrawal"}, dateRange)]

\* responseData, lines 176-192.  The end date is the last instant of the range.
ResponseData(dateRange, t, topClients) ==
    [period |-> dateRange.label,
     dateRange |-> [start |-> dateRange.start, end |-> dateRange.end - 1],
     summary |-> [totalIncome |-> t.grossIncome,
                  platformFees |-> t.platformFees,
                  withdrawalFees |-> t.withdrawalFees,
                  operatingExpenses |-> t.operatingExpenses,
                  netProfit |-> t.netProfit],
     topClients |-> topClients,
     currency |-> "USD"]

\* PdfData with the document's figures cut to whole dollars.
PdfData_wholeDollars(responseData, userRow, user) ==
    [report |->
        [responseData EXCEPT
            !.summary = [f \in DOMAIN responseData.summary |->
                            (responseData.summary[f] \div 100) * 100]],
     freelancer |-> [name |-> IF userRow THEN <<"name", user>> ELSE <<"Freelancer">>,
                     email |-> <<"email", user>>]]

\* pdfData, lines 202-208: the report plus the owner's display fields
PdfData(responseData, userRow, user) ==
    [report |-> responseData,
     freelancer |-> [name |-> IF userRow THEN <<"name", user>> ELSE <<"Freelancer">>,
                     email |-> <<"email", user>>]]

CatchResponse == ErrorResponse(500, "Failed to generate P&L report")

\* The body of the try block after validation, and its catch clause.
Generate(ledgerRows, req) ==
    LET dateRange == getPeriodDateRange(req.period, now)
        rows == Aggregate(ledgerRows, req, dateRange)
    IN  IF ~rows.ok THEN [response |-> CatchResponse, totals |-> NoTotals]
        ELSE
            LET t == ComputeTotals(rows.incomeTransactions, rows.refundTransactions,
                                   rows.withdrawalTransactions)
                topClients == TopClients(rows.incomeTransactions)
                responseData == ResponseData(dateRange, t, topClients)
            IN  IF FormatOf(req) = "pdf"
                THEN IF req.fail \in {"user", "render"}
                     THEN [response |-> CatchResponse, totals |-> t]
                     ELSE [response |->
                              [status |-> 200, kind |-> "pdf",
                               body |-> PdfData(responseData, req.userRow, req.auth),
                               filename |-> <<"P&L", req.period, now>>],
                           totals |-> t]
                ELSE [response |->
                         [status |-> 200, kind |-> "json", body |-> responseData],
                      totals |-> t]

Handle(ledgerRows, req) ==
    IF ValidateRequest(req) # NoResponse
    THEN [response |-> ValidateRequest(req), totals |-> NoTotals]
    ELSE Generate(ledgerRows, req)

----------------------------------------------------------------------------
(* Inputs *)

Tx(userId, status, type, amount, completedAt, invoice) ==
    [userId |-> userId, status |-> status, type |-> type, amount |-> amount,
     completedAt |-> completedAt, invoice |-> invoice]

Invoice(clientEmail, clientName) ==
    <<[clientEmail |-> clientEmail, clientName |-> clientName]>>

Feb == MonthsPerYear + 1

\* a few rows of user 1 inside every period that contains February
RouteUniverse ==
    {Tx(1, "completed", ty, 100, Feb, <<>>) : ty \in {"incoming", "refund", "withdrawal"}}
    \cup {Tx(1, "completed", "payment", 250, Feb, Invoice(<<65>>, "Acme"))}

RouteRequests ==
    [auth : {NoUser, 1},
     period : {NoParam, "", "bogus"} \cup Periods,
     format : {NoParam, "", "json", "pdf", "csv"},
     userId : {NoParam},
     fail : FailPoints,
     userRow : BOOLEAN]

----------------------------------------------------------------------------
(* Actions *)

Idle == response = NoResponse

\* The ledger is owned by other routes; a row is added between two requests.
AddTransaction(universe, max) ==
    /\ Idle
    /\ Len(ledger) < max
    /\ \E t \in universe : ledger' = Append(ledger, t)
    /\ last' = NoReport
    /\ UNCHANGED <<now, request, response, totals, widgetVars>>

Tick ==
    /\ Idle
    /\ now < MaxNow
    /\ now' = now + 1
    /\ UNCHANGED <<ledger, request, response, totals, last, widgetVars>>

\* export async function GET(request)
GET(requests) ==
    /\ Idle
    /\ \E req \in requests :
          /\ request' = req
          /\ response' = Handle(ledger, req).response
          /\ totals' = Handle(ledger, req).totals
    /\ UNCHANGED <<ledger, now, last, widgetVars>>

\* The response is sent; the report and the handler's locals are discarded.
Respond ==
    /\ ~Idle
    /\ request' = NoRequest
    /\ response' = NoResponse
    /\ totals' = NoTotals
    /\ UNCHANGED <<ledger, now, last, widgetVars>>

Init ==
    /\ ledger = <<>>
    /\ now = Feb
    /\ request = NoRequest
    /\ response = NoResponse
    /\ totals = NoTotals
    /\ last = NoReport
    /\ calls = <<>>
    /\ windows = <<>>

Next ==
    \/ AddTransaction(RouteUniverse, MaxLedger)
    \/ Tick
    \/ GET(RouteRequests)
    \/ Respond

Spec == Init /\ [][Next]_vars

----------------------------------------------------------------------------
(* Claims about the route's status codes and failure path (Spec) *)

Authenticated == request.auth # NoUser
ValidPeriod == request.period \in Periods
MissingFormat == request.format \in {NoParam, ""}
Passes == Authenticated /\ ValidPeriod /\ FormatOf(request) \in {"json", "pdf"}

\* C1: the answer follows the precedence 401 (no principal, whatever the
\* period and format), then 400 for a missing or unknown period, then 400 for
\* a format that is neither json nor pdf; a missing format (absent or empty,
\* which is what `searchParams.get('format') || 'json'` takes as missing) is
\* answered exactly as format=json is.
C1_StatusPrecedence ==
    ~Idle =>
        /\ ~Authenticated => response.status = 401
        /\ (Authenticated /\ ~ValidPeriod) => response.status = 400
        /\ (Authenticated /\ ValidPeriod /\ ~MissingFormat
              /\ request.format \notin {"json", "pdf"}) => response.status = 400
        /\ (Authenticated /\ ValidPeriod /\ MissingFormat) =>
              /\ response.status \in {200, 500}
              /\ response = Handle(ledger, [request EXCEPT !.format = "json"]).response

\* C1 witness: an unauthenticated request with a bogus period and format=csv
\* has been answered 401.
C1_Witness ==
    /\ request.auth = NoUser
    /\ request.period = "bogus"
    /\ request.format = "csv"
    /\ response.status = 401

\* the external calls a passing request awaits
CalledOf(req) ==
    {"income", "refund", "withdrawal"}
    \cup (IF FormatOf(req) = "pdf" THEN {"user", "render"} ELSE {})

\* C2: the report is all-or-nothing: when a ledger query (or, for pdf, the
\* owner lookup or the renderer) fails, the response is the generic 500 with
\* only an error field; totals exist only when all three queries returned, and
\* a 200 is sent only when no awaited call failed.
C2_AllOrNothing ==
    (~Idle /\ Passes) =>
        /\ request.fail \in CalledOf(request) =>
              /\ response.status = 500
              /\ response.kind = "json"
              /\ DOMAIN response.body = {"error"}
              /\ response.body.error = "Failed to generate P&L report"
        /\ totals.computed => request.fail \notin {"income", "refund", "withdrawal"}
        /\ response.status = 200 =>
              /\ request.fail \notin CalledOf(request)
              /\ totals.computed

\* C2 witness: the refund query failed over a ledger that holds income and a
\* refund, and the request was answered 500.
C2_Witness ==
    /\ Passes
    /\ request.fail = "refund"
    /\ response.status = 500
    /\ \E i \in DOMAIN ledger : ledger[i].type = "refund"
    /\ \E i \in DOMAIN ledger : ledger[i].type \in IncomeTypes

----------------------------------------------------------------------------
(* The aggregation over a ledger of mixed rows (SpecTotals) *)

\* Rows of user 1 completed just before, at and just after February, of
\* every type and two amounts (a payment carries an invoice); and rows of
\* another user and rows not completed.
TotalsUniverse ==
    {Tx(1, "completed", ty, a, m, IF ty = "payment" THEN Invoice(<<97>>, "Acme") ELSE <<>>) :
        ty \in {"incoming", "payment", "refund", "withdrawal"},
        a \in {100, 250}, m \in {Feb - 1, Feb, Feb + 1}}
    \cup {Tx(u[1], u[2], ty, 100, Feb, <<>>) :
            u \in {<<2, "completed">>, <<1, "pending">>},
            ty \in {"incoming", "payment", "refund", "withdrawal"}}

\* json requests of user 1
TotalsRequests ==
    [auth : {1}, period : Periods, format : {"json"}, userId : {NoParam},
     fail : {"none"}, userRow : {TRUE}]

NextTotals ==
    \/ AddTransaction(TotalsUniverse, MaxLedger)
    \/ Tick
    \/ GET(TotalsRequests)
    \/ Respond

SpecTotals == Init /\ [][NextTotals]_vars

Reported == response.status = 200

\* the range the answered request was resolved to
RequestRange == getPeriodDateRange(request.period, now)

\* C7's condition for a row to count for the principal in a category
Contributes(t, types) ==
    /\ t.userId = request.auth
    /\ t.status = "completed"
    /\ t.type \in types
    /\ RequestRange.start <= t.completedAt
    /\ t.completedAt < RequestRange.end

ContributesAny(t) == Contributes(t, {"incoming", "payment", "refund", "withdrawal"})

\* the positions of the ledger rows that count in a category
Counted(types) == {i \in DOMAIN ledger : Contributes(ledger[i], types)}

RECURSIVE RefAmount(_)
RefAmount(S) ==
    IF S = {} THEN 0
    ELSE LET i == CHOOSE j \in S : TRUE IN ledger[i].amount + RefAmount(S \ {i})

\* the fee of one amount, half a percent rounded half up to a cent
RefFee(a) == IF (a * 5) % 1000 >= 500 THEN (a * 5) \div 1000 + 1 ELSE (a * 5) \div 1000

RECURSIVE RefFees(_)
RefFees(S) ==
    IF S = {} THEN 0
    ELSE LET i == CHOOSE j \in S : TRUE IN RefFee(ledger[i].amount) + RefFees(S \ {i})

\* C3: grossIncome = round2(totalIncome - totalRefunds) and netProfit =
\* round2(grossIncome - platformFees - withdrawalFees - operatingExpenses),
\* over the totals of one report.
C3_TotalsIdentities ==
    totals.computed =>
        /\ totals.grossIncome = round2(Milli(totals.totalIncome - totals.totalRefunds))
        /\ totals.netProfit =
              round2(Milli(totals.grossIncome - totals.platformFees
                           - totals.withdrawalFees - totals.operatingExpenses))
        /\ totals.totalIncome = RefAmount(Counted(IncomeTypes))
        /\ totals.totalRefunds = RefAmount(Counted({"refund"}))

\* C3 witness: a report over income, a refund and a withdrawal whose fee is
\* not zero.
C3_Witness ==
    /\ Reported
    /\ totals.totalIncome > 0
    /\ totals.withdrawalFees > 0
    /\ totals.netProfit < totals.grossIncome - totals.operatingExpenses

\* C4: the summary's totalIncome is the aggregator's totalIncome, the sum of
\* the period's income amounts before refunds are subtracted.
C4_SummaryTotalIncome ==
    (Reported /\ response.kind = "json") =>
        /\ response.body.summary.totalIncome = totals.totalIncome
        /\ response.body.summary.totalIncome = RefAmount(Counted(IncomeTypes))

\* C4 witness: a json report over income and a refund of the period.
C4_Witness ==
    /\ Reported
    /\ response.kind = "json"
    /\ Counted(IncomeTypes) # {}
    /\ Counted({"refund"}) # {}

\* C5: platformFees is the sum of the fee of every income row of the period,
\* withdrawalFees the sum of the fee of every withdrawal, operatingExpenses
\* the sum of the withdrawal amounts; refunds add to none of them.
C5_FeeTotals ==
    Reported =>
        /\ totals.platformFees = RefFees(Counted(IncomeTypes))
        /\ totals.withdrawalFees = RefFees(Counted({"withdrawal"}))
        /\ totals.operatingExpenses = RefAmount(Counted({"withdrawal"}))
        /\ response.body.summary.platformFees = totals.platformFees
        /\ response.body.summary.withdrawalFees = totals.withdrawalFees
        /\ response.body.summary.operatingExpenses = totals.operatingExpenses

\* C5 witness: a report over two income rows whose fees do not add up to the
\* fee of their sum.
C5_Witness ==
    /\ Reported
    /\ Cardinality(Counted(IncomeTypes)) = 2
    /\ totals.platformFees # RefFee(totals.totalIncome)

\* Rows that differ in owner, status, type and completion time only.
FilterUniverse ==
    {Tx(1, "completed", ty, 100, m, IF ty = "payment" THEN Invoice(<<97>>, "Acme") ELSE <<>>) :
        ty \in {"incoming", "payment", "refund", "withdrawal"},
        m \in {Feb - 1, Feb, Feb + 1}}
    \cup {Tx(u[1], u[2], ty, 100, Feb,
             IF ty = "payment" THEN Invoice(<<98>>, "Bolt") ELSE <<>>) :
            u \in {<<2, "completed">>, <<1, "pending">>},
            ty \in {"incoming", "payment", "refund", "withdrawal"}}

\* json requests of user 1 that name user 2 in a userId parameter
FilterRequests ==
    [auth : {1}, period : Periods, format : {"json"}, userId : {"2"},
     fail : {"none"}, userRow : {TRUE}]

NextFilter ==
    \/ AddTransaction(FilterUniverse, MaxFilterLedger)
    \/ Tick
    \/ GET(FilterRequests)
    \/ Respond

SpecFilter == Init /\ [][NextFilter]_vars

RemoveAt(s, i) == SubSeq(s, 1, i - 1) \o SubSeq(s, i + 1, Len(s))

\* the report a ledger would give to the answered request
ReportOver(rows) == Handle(rows, request).response

\* C7: a row counts if and only if it belongs to the authenticated principal,
\* is completed, has a type of the category and start <= completedAt < end:
\* the figures are those of exactly these rows, and the report is the same
\* after adding, removing or altering a row that does not count, and whatever
\* userId the request carries as a parameter.
C7_ContributingRows ==
    Reported =>
        /\ response.body.summary.totalIncome =
              RefAmount(Counted(IncomeTypes)) - RefAmount(Counted({"refund"}))
        /\ response.body.summary.platformFees = RefFees(Counted(IncomeTypes))
        /\ response.body.summary.withdrawalFees = RefFees(Counted({"withdrawal"}))
        /\ response.body.summary.operatingExpenses = RefAmount(Counted({"withdrawal"}))
        /\ \A k \in DOMAIN response.body.topClients :
              \E i \in Counted(IncomeTypes) :
                 /\ ledger[i].invoice # <<>>
                 /\ toLowerCase(ledger[i].invoice[1].clientEmail)
                       = response.body.topClients[k].email
        /\ \A t \in FilterUniverse :
              ~ContributesAny(t) =>
                 /\ ReportOver(Append(ledger, t)) = response
                 /\ \A i \in DOMAIN ledger :
                       ~ContributesAny(ledger[i]) =>
                          ReportOver([ledger EXCEPT ![i] = t]) = response
        /\ \A i \in DOMAIN ledger :
              ~ContributesAny(ledger[i]) => ReportOver(RemoveAt(ledger, i)) = response
        /\ \A u \in {NoParam, "1", "2"} :
              Handle(ledger, [request EXCEPT !.userId = u]).response = response

\* C7 witness: a report whose range starts at the completion time of a row
\* that counts and ends at the completion time of a row of the same user,
\* status and category that does not.
C7_Witness ==
    /\ Reported
    /\ \E i, j \in DOMAIN ledger :
          /\ ledger[i].completedAt = RequestRange.start
          /\ ledger[j].completedAt = RequestRange.end
          /\ ledger[i].type = ledger[j].type
          /\ ContributesAny(ledger[i])
          /\ ledger[j].userId = request.auth
          /\ ledger[j].status = "completed"
          /\ response.body.summary.operatingExpenses = ledger[i].amount

----------------------------------------------------------------------------
(* The client ranking over invoiced income (SpecRank) *)

\* Invoiced income of user 1 that the ledger holds from the start: clients
\* b, c and d, in this storage order.
RankSeed ==
    <<Tx(1, "completed", "payment", 100, Feb, Invoice(<<98>>, "Bolt")),
      Tx(1, "completed", "payment", 250, Feb, Invoice(<<99>>, "Core")),
      Tx(1, "completed", "payment", 100, Feb, Invoice(<<100>>, "Dyn"))>>

\* Income rows of user 1 in the first quarter: one without an invoice, one
\* whose invoice has an empty client email, client a in lower and in upper
\* case, more invoices of b and d, and client e completed a month earlier.
RankUniverse ==
    {Tx(1, "completed", "incoming", 100, Feb, <<>>),
     Tx(1, "completed", "payment", 100, Feb, Invoice(<<>>, "Nameless")),
     Tx(1, "completed", "payment", 100, Feb, Invoice(<<97>>, "Acme")),
     Tx(1, "completed", "payment", 250, Feb, Invoice(<<97>>, "Acme")),
     Tx(1, "completed", "payment", 100, Feb, Invoice(<<65>>, "")),
     Tx(1, "completed", "payment", 250, Feb, Invoice(<<98>>, "Bolt")),
     Tx(1, "completed", "payment", 100, Feb, Invoice(<<68>>, "DYN")),
     Tx(1, "completed", "payment", 100, Feb - 1, Invoice(<<101>>, "Eon")),
     Tx(1, "completed", "payment", 250, Feb, Invoice(<<101>>, "Eon"))}

RankRequests ==
    [auth : {1}, period : {"current_quarter"}, format : {"json"}, userId : {NoParam},
     fail : {"none"}, userRow : {TRUE}]

InitRank ==
    /\ ledger = RankSeed
    /\ now = Feb
    /\ request = NoRequest
    /\ response = NoResponse
    /\ totals = NoTotals
    /\ last = NoReport
    /\ calls = <<>>
    /\ windows = <<>>

NextRank ==
    \/ AddTransaction(RankUniverse, MaxRankLedger)
    \/ GET(RankRequests)
    \/ Respond

SpecRank == InitRank /\ [][NextRank]_vars

\* the invoiced income rows of the report
RankedRows == {i \in Counted(IncomeTypes) : ledger[i].invoice # <<>>}

IdentityOf(i) == toLowerCase(ledger[i].invoice[1].clientEmail)

Identities == {IdentityOf(i) : i \in RankedRows}

RowsOf(id) == {i \in RankedRows : IdentityOf(i) = id}

\* a row comes before another in ascending completion-time order
Earlier(i, j) ==
    \/ ledger[i].completedAt < ledger[j].completedAt
    \/ ledger[i].completedAt = ledger[j].completedAt /\ i < j

FirstSeen(id) == CHOOSE i \in RowsOf(id) : \A j \in RowsOf(id) : i = j \/ Earlier(i, j)

Beats(x, y) ==
    \/ RefAmount(RowsOf(x)) > RefAmount(RowsOf(y))
    \/ /\ RefAmount(RowsOf(x)) = RefAmount(RowsOf(y))
       /\ x # y
       /\ Earlier(FirstSeen(x), FirstSeen(y))

RefRank(id) == 1 + Cardinality({y \in Identities : Beats(y, id)})

\* C6: topClients is the first 5 entries of the reference ranking: invoiced
\* income grouped by lowercased client email, revenue the sum of the group's
\* amounts, invoiceCount its size, ordered by descending revenue with ties to
\* the identity seen first in ascending completion-time order.
C6_TopClientsRanking ==
    Reported =>
        LET top == response.body.topClients
        IN  /\ Len(top) = Min(5, Cardinality(Identities))
            /\ \A k \in DOMAIN top :
                  /\ top[k].email \in Identities
                  /\ RefRank(top[k].email) = k
                  /\ top[k].revenue = RefAmount(RowsOf(top[k].email))
                  /\ top[k].invoiceCount = Cardinality(RowsOf(top[k].email))

\* C6 witness: six identities, five of them reported, two of the reported
\* ones with the same revenue.
C6_Witness ==
    /\ Reported
    /\ Cardinality(Identities) = 6
    /\ Len(response.body.topClients) = 5
    /\ response.body.topClients[1].revenue > response.body.topClients[2].revenue
    /\ response.body.topClients[2].revenue = response.body.topClients[3].revenue

\* C9: every entry of topClients has a non-empty identity.
C9_NonEmptyIdentity ==
    Reported =>
        \A k \in DOMAIN response.body.topClients :
            response.body.topClients[k].email # <<>>

\* C9 witness: a report over an income row whose invoice has an empty client
\* email.
C9_Witness ==
    /\ Reported
    /\ \E i \in RankedRows : ledger[i].invoice[1].clientEmail = <<>>

----------------------------------------------------------------------------
(* Repeated requests over an unchanged ledger (SpecIdem) *)

IdemUniverse ==
    {Tx(1, "completed", "incoming", 100, Feb, <<>>),
     Tx(1, "completed", "payment", 250, Feb, Invoice(<<97>>, "Acme")),
     Tx(1, "completed", "payment", 100, Feb + 1, Invoice(<<66>>, "Bolt")),
     Tx(1, "completed", "refund", 100, Feb, <<>>),
     Tx(1, "completed", "withdrawal", 100, Feb + 1, <<>>),
     Tx(2, "completed", "payment", 100, Feb, Invoice(<<97>>, "Acme"))}

IdemRequests ==
    [auth : Users, period : {"current_month", "current_quarter"},
     format : {"json", "pdf"}, userId : {NoParam}, fail : {"none"}, userRow : {TRUE}]

\* the report a 200 response carries, in either encoding
ReportIn(resp) == IF resp.kind = "pdf" THEN resp.body.report ELSE resp.body

\* The client keeps the report it received, to compare a later one with it.
Observe ==
    /\ Reported
    /\ last' = [status |-> 200,
                user |-> request.auth,
                period |-> request.period,
                format |-> FormatOf(request),
                dateRange |-> RequestRange,
                summary |-> ReportIn(response).summary,
                topClients |-> ReportIn(response).topClients]
    /\ request' = NoRequest
    /\ response' = NoResponse
    /\ totals' = NoTotals
    /\ UNCHANGED <<ledger, now, widgetVars>>

NextIdem ==
    \/ AddTransaction(IdemUniverse, MaxLedger)
    \/ Tick
    \/ GET(IdemRequests)
    \/ Respond
    \/ Observe

SpecIdem == Init /\ [][NextIdem]_vars

\* a report of the same user and period token was kept, the ledger unchanged
SameUserAndToken ==
    /\ Reported
    /\ last.status = 200
    /\ last.user = request.auth
    /\ last.period = request.period

SameReport ==
    /\ ReportIn(response).summary = last.summary
    /\ ReportIn(response).topClients = last.topClients

----------------------------------------------------------------------------
(* useMoonPayWidget.openWidget (SpecWidget) *)

\* popup of a call: 0 is the null that window.open returns when the popup is
\* blocked, k > 0 is the k-th window named 'MoonPay'.
NoPopup == 0

\* openWidget is called: it starts loading the MoonPay SDK.
CallOpenWidget ==
    /\ Len(calls) < MaxCalls
    /\ \E given \in BOOLEAN :
          calls' = Append(calls, [pc |-> "loading", popup |-> NoPopup,
                                  onClose |-> given, closed |-> 0, beat |-> 0])
    /\ UNCHANGED <<windows, routeVars>>

\* The import or loadMoonPay fails: openWidget rejects before any popup.
LoadFails(i) ==
    /\ i \in DOMAIN calls
    /\ calls[i].pc = "loading"
    /\ calls' = [calls EXCEPT ![i].pc = "failed"]
    /\ UNCHANGED <<windows, routeVars>>

\* window.open(moonPayUrl, 'MoonPay', ...) and setInterval(..., 500).  An open
\* window of that name is reused; a blocked popup gives null.
OpenPopup(i) ==
    /\ i \in DOMAIN calls
    /\ calls[i].pc = "loading"
    /\ \E blocked \in BOOLEAN :
          IF blocked
          THEN /\ calls' = [calls EXCEPT ![i].pc = "polling", ![i].popup = NoPopup]
               /\ UNCHANGED windows
          ELSE IF \E w \in DOMAIN windows : windows[w] = "open"
          THEN /\ calls' = [calls EXCEPT
                              ![i].pc = "polling",
                              ![i].popup = CHOOSE w \in DOMAIN windows : windows[w] = "open"]
               /\ UNCHANGED windows
          ELSE /\ windows' = Append(windows, "open")
               /\ calls' = [calls EXCEPT ![i].pc = "polling",
                                         ![i].popup = Len(windows) + 1]
    /\ UNCHANGED routeVars

\* The user closes the popup window.
ClosePopup(w) ==
    /\ w \in DOMAIN windows
    /\ windows[w] = "open"
    /\ windows' = [windows EXCEPT ![w] = "closed"]
    /\ UNCHANGED <<calls, routeVars>>

\* popup?.closed
PopupClosed(c) == c.popup # NoPopup /\ windows[c.popup] = "closed"

\* One run of the interval callback of call i; beat is the parity of the
\* runs that found nothing to do.
Poll(i) ==
    /\ i \in DOMAIN calls
    /\ calls[i].pc = "polling"
    /\ IF PopupClosed(calls[i])
       THEN calls' = [calls EXCEPT
                         ![i].pc = "cleared",
                         ![i].closed = IF calls[i].onClose THEN @ + 1 ELSE @]
       ELSE calls' = [calls EXCEPT ![i].beat = 1 - @]
    /\ UNCHANGED <<windows, routeVars>>

NextWidget ==
    \/ CallOpenWidget
    \/ \E i \in 1..MaxCalls : LoadFails(i)
    \/ \E i \in 1..MaxCalls : OpenPopup(i)
    \/ \E w \in 1..MaxCalls : ClosePopup(w)
    \/ \E i \in 1..MaxCalls : Poll(i)

\* The interval keeps firing while it is set.
SpecWidget ==
    Init /\ [][NextWidget]_vars /\ \A i \in 1..MaxCalls : WF_vars(Poll(i))

\* call i passed window.open with an onClose callback
Opened(i) ==
    /\ i \in DOMAIN calls
    /\ calls[i].pc \in {"polling", "cleared"}
    /\ calls[i].onClose

\* call i has invoked onClose exactly once and cleared its timer
ClosedOnce(i) ==
    /\ i \in DOMAIN calls
    /\ calls[i].pc = "cleared"
    /\ calls[i].closed = 1

\* C10: onClose is never invoked while the popup is open and never twice;
\* once the popup is closed, and also when window.open returned no popup,
\* onClose is invoked exactly once and the poll timer is cleared.
C10_OnCloseOnceAndPollingStops ==
    /\ [](\A i \in DOMAIN calls :
             /\ calls[i].closed <= 1
             /\ calls[i].closed = 1 => PopupClosed(calls[i]))
    /\ \A i \in 1..MaxCalls :
          (Opened(i) /\ (calls[i].popup = NoPopup \/ PopupClosed(calls[i])))
             ~> ClosedOnce(i)

\* C10 witness: window.open returned no popup and the timer is polling.
C10_Witness ==
    \E i \in DOMAIN calls :
        /\ calls[i].pc = "polling"
        /\ calls[i].onClose
        /\ calls[i].popup = NoPopup

\* The part of C10 that the hook does keep: the same with a popup that was
\* opened and then closed.
C10_ClosedPopupOnCloseOnce ==
    /\ [](\A i \in DOMAIN calls :
             /\ calls[i].closed <= 1
             /\ calls[i].closed = 1 => PopupClosed(calls[i]))
    /\ \A i \in 1..MaxCalls : (Opened(i) /\ PopupClosed(calls[i])) ~> ClosedOnce(i)

====
